---- MODULE Spec2Model ----
(***************************************************************************)
(* pwr: power-saving-mode controller for linux laptops (src/src/pwr.c).    *)
(*                                                                         *)
(* The model follows one pwr process from main() through parse_args() and  *)
(* the selected action, together with every child it forks in fexecl().    *)
(* The parent blocks in waitpid() until its child has exited, so the       *)
(* processes of one invocation form a stack: only the youngest one runs.   *)
(* A child whose execl() fails falls out of the fexecl macro and keeps     *)
(* executing the parent's code.                                            *)
(*                                                                         *)
(* Strings that the program only compares or copies are TLA+ strings; the  *)
(* state file is a sequence of atoms in which "\n" is the newline, and an  *)
(* interface name is a sequence of characters.                             *)
(***************************************************************************)
EXTENDS Integers, Sequences, FiniteSets, TLC

VARIABLES
    pwr_state,   \* /var/lib/pwr_state: [exists, text]
    governor,    \* contents of the scaling_governor files matched by glob()
    env,         \* the machine: tool files, network interfaces, launch credentials
    argv,        \* argv[1..] of the invocation in each slot
    flags,       \* struct s_flags flags
    ruid,        \* static int ruid
    mode,        \* which transition body runs: "perform" / "powersave"
    procs,       \* per slot: stack of process frames, youngest last
    status,      \* per slot: "off" | "ready" | "running" | "exited" | "signaled"
    exitcode,    \* per slot: exit code of the invocation's main process
    out,         \* per slot: lines written to stdout by action_query
    log,         \* what the processes of the running invocations did, in order
    committed,   \* state name requested by the last transition that returned E_OK
    read_state,  \* per slot: `state` of action_toggle, <<>> until it is assigned
    prev         \* what the invocation before the current one did, <<>> if not kept

vars == <<pwr_state, governor, env, argv, flags, ruid, mode, procs, status,
          exitcode, out, log, committed, read_state, prev>>

----------------------------------------------------------------------------
(* Bounds *)

MaxArgs == 2
MaxCpus == 2

Slots == {"A", "B"}

----------------------------------------------------------------------------
(* enum errors *)

E_OK == 0
E_NO_ACTION == 1
E_BAD_ARG == 2
E_CPUFREQ_WRITE == 3
E_PWR_STATE_WRITE == 4
E_PWR_STATE_READ == 5
E_FORK_FAILED == 6

----------------------------------------------------------------------------
(* Files, stat() and exec permission *)

S_IEXEC == 64        \* 0000100 (S_IXUSR)

\* A path as stat() sees it; mode is st_mode (file type and permission bits).
NoEnt == [exists |-> FALSE, mode |-> 0]
Reg0755 == [exists |-> TRUE, mode |-> 33261]    \* 0100755
Dir0755 == [exists |-> TRUE, mode |-> 16877]    \* 0040755

RECURSIVE BitAnd(_, _)
BitAnd(a, b) ==
    IF a = 0 \/ b = 0 THEN 0
    ELSE (a % 2) * (b % 2) + 2 * BitAnd(a \div 2, b \div 2)

\* `return status.st_mode & S_IEXEC != 0;`  != binds tighter than &, so the
\* mask is the int value of (S_IEXEC != 0).
binary_exists(f) ==
    IF ~f.exists THEN 0
    ELSE BitAnd(f.mode, IF S_IEXEC # 0 THEN 1 ELSE 0)

\* Whether execl() of a root-owned file succeeds for effective uid u: a
\* regular file (S_IFMT mask 0170000, S_IFREG 0100000) with an execute bit
\* that applies to u (any of 0111 for root, 0001 for another user).
CanExec(f, u) ==
    /\ f.exists
    /\ BitAnd(f.mode, 61440) = 32768
    /\ IF u = 0 THEN BitAnd(f.mode, 73) # 0 ELSE BitAnd(f.mode, 1) # 0

\* seteuid(target) for a process with effective uid u: permitted to a
\* privileged process, or when target is the real, effective or saved uid.
\* The return value is ignored by the program, so only the new euid matters.
seteuid(cred, u, target) ==
    IF u = 0 \/ target \in {cred.real, u, cred.saved} THEN target ELSE u

----------------------------------------------------------------------------
(* Network interfaces *)

Name_lo == <<"l", "o">>
Name_eth0 == <<"e", "t", "h", "0">>
Name_wlan0 == <<"w", "l", "a", "n", "0">>
Name_wlp2s0 == <<"w", "l", "p", "2", "s", "0">>

\* ifa_name[0] == 'w' && ifa_name[1] == 'l' (ifa_name[1] of a one-character
\* name is the terminating NUL)
IsWl(name) ==
    /\ Len(name) >= 1 /\ name[1] = "w"
    /\ Len(name) >= 2 /\ name[2] = "l"

\* The while loop of wlan_name(): index of the node iface points to when the
\* loop ends, 0 for NULL.
RECURSIVE wlan_scan(_, _)
wlan_scan(ifs, i) ==
    IF i > Len(ifs) THEN 0
    ELSE IF IsWl(ifs[i]) THEN i
    ELSE wlan_scan(ifs, i + 1)

\* After the loop wlan_name() evaluates strlen(iface->ifa_name) whatever the
\* loop found.  With iface == NULL that is a null-pointer dereference:
\* undefined behaviour, whose outcomes are the process dying of SIGSEGV or
\* the read going unnoticed and the function returning NULL (found == 0).
WlanOutcomes(ifs) ==
    LET i == wlan_scan(ifs, 1) IN
    IF i # 0 THEN {[crash |-> FALSE, found |-> TRUE, name |-> ifs[i]]}
    ELSE {[crash |-> TRUE, found |-> FALSE, name |-> <<>>],
          [crash |-> FALSE, found |-> FALSE, name |-> <<>>]}

----------------------------------------------------------------------------
(* Command line *)

ArgTokens == {"perform", "pe", "powersave", "ps", "query", "qu", "toggle", "to",
              "--help", "--version", "--norestart", "-n", "--bogus"}

RECURSIVE SeqsUpTo(_, _)
SeqsUpTo(S, n) ==
    IF n = 0 THEN {<<>>}
    ELSE LET shorter == SeqsUpTo(S, n - 1)
         IN shorter \cup {Append(q, x) : q \in {r \in shorter : Len(r) = n - 1}, x \in S}

\* Every command line of at most MaxArgs tokens.
CommandLines == SeqsUpTo(ArgTokens, MaxArgs)

\* The command lines of everyday use: nothing, one token in its long form,
\* or a transition followed by the no-restart flag.
ShortLines ==
    {<<>>}
    \cup {<<a>> : a \in {"perform", "powersave", "query", "toggle", "--help",
                         "--version", "--norestart", "--bogus"}}
    \cup {<<a, "--norestart">> : a \in {"perform", "powersave", "toggle"}}

\* parse_arg with a slip: choosing an action clears the no-restart flag.
parse_arg_ActionClearsFlag(f, arg) ==
    IF arg \in {"perform", "pe"} THEN [f EXCEPT !.action = "action_perform", !.no_restart = 0]
    ELSE IF arg \in {"powersave", "ps"} THEN [f EXCEPT !.action = "action_powersave", !.no_restart = 0]
    ELSE IF arg \in {"query", "qu"} THEN [f EXCEPT !.action = "action_query", !.no_restart = 0]
    ELSE IF arg \in {"toggle", "to"} THEN [f EXCEPT !.action = "action_toggle", !.no_restart = 0]
    ELSE IF arg = "--help" THEN [f EXCEPT !.action = "action_help"]
    ELSE IF arg = "--version" THEN [f EXCEPT !.action = "action_version"]
    ELSE IF arg \in {"--norestart", "-n"} THEN [f EXCEPT !.no_restart = 1]
    ELSE [f EXCEPT !.result = E_BAD_ARG]

\* parse_arg with a slip: a token it does not know is skipped.
parse_arg_SkipsUnknown(f, arg) ==
    IF arg \in {"perform", "pe"} THEN [f EXCEPT !.action = "action_perform"]
    ELSE IF arg \in {"powersave", "ps"} THEN [f EXCEPT !.action = "action_powersave"]
    ELSE IF arg \in {"query", "qu"} THEN [f EXCEPT !.action = "action_query"]
    ELSE IF arg \in {"toggle", "to"} THEN [f EXCEPT !.action = "action_toggle"]
    ELSE IF arg = "--help" THEN [f EXCEPT !.action = "action_help"]
    ELSE IF arg = "--version" THEN [f EXCEPT !.action = "action_version"]
    ELSE IF arg \in {"--norestart", "-n"} THEN [f EXCEPT !.no_restart = 1]
    ELSE f

\* One iteration of the for loop of parse_args on token arg.
parse_arg(f, arg) ==
    IF arg = "perform" \/ arg = "pe" THEN [f EXCEPT !.action = "action_perform"]
    ELSE IF arg = "powersave" \/ arg = "ps" THEN [f EXCEPT !.action = "action_powersave"]
    ELSE IF arg = "query" \/ arg = "qu" THEN [f EXCEPT !.action = "action_query"]
    ELSE IF arg = "toggle" \/ arg = "to" THEN [f EXCEPT !.action = "action_toggle"]
    ELSE IF arg = "--help" THEN [f EXCEPT !.action = "action_help"]
    ELSE IF arg = "--version" THEN [f EXCEPT !.action = "action_version"]
    ELSE IF arg = "--norestart" \/ arg = "-n" THEN [f EXCEPT !.no_restart = 1]
    ELSE [f EXCEPT !.result = E_BAD_ARG]

RECURSIVE parse_loop(_, _, _)
parse_loop(f, args, i) ==
    IF i > Len(args) THEN f
    ELSE LET g == parse_arg(f, args[i])
         IN IF g.result # E_OK THEN g ELSE parse_loop(g, args, i + 1)

\* parse_args: the flags struct after the call, with the value returned.
parse_args(args) ==
    parse_loop([action |-> "action_none", no_restart |-> 0, result |-> E_OK], args, 1)

----------------------------------------------------------------------------
(* The state file *)

\* fprintf(pstate, "%s\n", state)
StateText(state) == <<state, "\n">>

\* getline() followed by result[strcspn(result, "\n")] = 0: the atoms before
\* the first newline.
RECURSIVE get_line(_)
get_line(text) ==
    IF text = <<>> \/ Head(text) = "\n" THEN <<>>
    ELSE <<Head(text)>> \o get_line(Tail(text))

----------------------------------------------------------------------------
(* The two transition bodies *)

\* action_perform / action_powersave: the statements in program order.
TransitionBody ==
    <<"seteuid", "cpu_governor", "prime_select", "wifi_power",
      "restart_display_manager", "set_pwr_state", "restore", "return">>

Actuators == {"cpu_governor", "prime_select", "wifi_power", "restart_display_manager"}

\* After with a slip: the display manager is restarted first, the governor
\* written last.
After_RestartFirst(pc) ==
    LET body == <<"seteuid", "restart_display_manager", "prime_select", "wifi_power",
                  "cpu_governor", "set_pwr_state", "restore", "return">>
        i == CHOOSE j \in 1..Len(body) : body[j] = pc
    IN body[i + 1]

\* After with a slip: the caller's uid is restored before the state file is
\* written.
After_RestoreBeforeWrite(pc) ==
    LET body == <<"seteuid", "cpu_governor", "prime_select", "wifi_power",
                  "restart_display_manager", "restore", "set_pwr_state", "return">>
        i == CHOOSE j \in 1..Len(body) : body[j] = pc
    IN body[i + 1]

\* The statement that follows statement pc.
After(pc) ==
    LET i == CHOOSE j \in 1..Len(TransitionBody) : TransitionBody[j] = pc
    IN TransitionBody[i + 1]

\* StateArg with a slip: perform records the governor's name.
StateArg_GovernorName(m) == IF m = "perform" THEN "performance" ELSE "powersave"

\* The literal arguments of the two bodies.
GovernorArg(m) == IF m = "perform" THEN "performance" ELSE "powersave"
CardArg(m) == IF m = "perform" THEN "nvidia" ELSE "intel"
WifiArg(m) == IF m = "perform" THEN "off" ELSE "on"
StateArg(m) == IF m = "perform" THEN "perform" ELSE "powersave"

----------------------------------------------------------------------------
(* The machine *)

ToolFiles == {NoEnt, Reg0755, Dir0755}

InterfaceLists == {<<Name_lo, Name_eth0>>, <<Name_lo, Name_wlan0, Name_wlp2s0>>}

\* Credentials a pwr process can start with: run by root; run by an ordinary
\* user; run by root from a binary that is set-uid to an ordinary user (the
\* one start in which seteuid(0) raises the effective uid).
LaunchCreds ==
    {[real |-> 0, eff |-> 0, saved |-> 0],
     [real |-> 1000, eff |-> 1000, saved |-> 1000],
     [real |-> 0, eff |-> 1000, saved |-> 1000]}

\* What a scaling_governor file holds before pwr has written it.
BootGovernor == "schedutil"

\* The governor names the kernel accepts when they are written to a
\* scaling_governor file; the write() of any other name fails with EINVAL.
AllGovernors == {"performance", "powersave", BootGovernor}

\* Every combination of tools, interfaces and credentials on a kernel that
\* provides every governor, and one machine, with every tool and a wireless
\* interface and run by root, whose kernel lacks the powersave governor.
Machines ==
    [prime_select : ToolFiles, iwconfig : ToolFiles, systemctl : ToolFiles,
     ifaces : InterfaceLists, cred : LaunchCreds, accepts : {AllGovernors}]
    \cup {[prime_select |-> Reg0755, iwconfig |-> Reg0755, systemctl |-> Reg0755,
           ifaces |-> <<Name_lo, Name_wlan0, Name_wlp2s0>>,
           cred |-> [real |-> 0, eff |-> 0, saved |-> 0],
           accepts |-> AllGovernors \ {"powersave"}]}

\* The state file as the program leaves it: never written, or written by
\* set_pwr_state.
StateFiles ==
    {[exists |-> FALSE, text |-> <<>>]}
    \cup {[exists |-> TRUE, text |-> StateText(StateArg(m))] : m \in {"perform", "powersave"}}

----------------------------------------------------------------------------
(* Processes *)

NoFlags == [action |-> "", no_restart |-> 0, result |-> E_OK]

Frame(pc, euid) == [pc |-> pc, euid |-> euid, tool |-> "", arg |-> <<>>, next |-> ""]

Depth(s) == Len(procs[s])
Top(s) == procs[s][Depth(s)]
Running(s) == status[s] = "running"
At(s, pc) == Running(s) /\ Top(s).pc = pc

Event(k, a, arg, s, ok, rc) ==
    [k |-> k, a |-> a, arg |-> arg, u |-> Top(s).euid, d |-> Depth(s),
     slot |-> s, ok |-> ok, rc |-> rc]

\* The running process of slot s moves to statement pc with effective uid u.
Goto(s, pc, u) ==
    procs' = [procs EXCEPT ![s][Depth(s)] = [@ EXCEPT !.pc = pc, !.euid = u]]

\* Terminate with a slip: the parent examines the status waitpid() stored and
\* treats a tool that exited with a code other than 0 like a failed fork.
Terminate_StatusChecked(s, how, code, lg) ==
    LET e == Event(IF Top(s).pc = "execl" THEN "tool_exit" ELSE "exit",
                   how, <<>>, s, how = "exited", code) IN
    IF Depth(s) = 1 \/ (Top(s).pc = "execl" /\ code # 0)
    THEN /\ procs' = [procs EXCEPT ![s] = <<>>]
         /\ status' = [status EXCEPT ![s] = how]
         /\ exitcode' = [exitcode EXCEPT ![s] = IF Depth(s) = 1 THEN code ELSE E_FORK_FAILED]
         /\ log' = Append(lg, e)
    ELSE /\ procs' = [procs EXCEPT ![s] = SubSeq(@, 1, Depth(s) - 1)]
         /\ UNCHANGED <<status, exitcode>>
         /\ log' = lg \o <<e, [k |-> "ret", a |-> Top(s).tool, arg |-> <<>>,
                               u |-> procs[s][Depth(s) - 1].euid,
                               d |-> Depth(s) - 1, slot |-> s, ok |-> TRUE, rc |-> 0]>>

\* The running process of slot s ends: exit(code), return from main, or death
\* by a signal (how = "signaled").  If it is a forked child, the parent's
\* waitpid() returns and the parent leaves the fexecl macro and the actuator
\* that used it.
Terminate(s, how, code, lg) ==
    LET e == Event(IF Top(s).pc = "execl" THEN "tool_exit" ELSE "exit",
                   how, <<>>, s, how = "exited", code) IN
    IF Depth(s) = 1
    THEN /\ procs' = [procs EXCEPT ![s] = <<>>]
         /\ status' = [status EXCEPT ![s] = how]
         /\ exitcode' = [exitcode EXCEPT ![s] = code]
         /\ log' = Append(lg, e)
    ELSE /\ procs' = [procs EXCEPT ![s] = SubSeq(@, 1, Depth(s) - 1)]
         /\ UNCHANGED <<status, exitcode>>
         /\ log' = lg \o <<e, [k |-> "ret", a |-> Top(s).tool, arg |-> <<>>,
                               u |-> procs[s][Depth(s) - 1].euid,
                               d |-> Depth(s) - 1, slot |-> s, ok |-> TRUE, rc |-> 0]>>

\* ehandle(ACTION, EID) with ACTION true
ehandle(s, eid, lg) == Terminate(s, "exited", eid, lg)

----------------------------------------------------------------------------
(* Initial states *)

InitMachine(machines) ==
    /\ env \in machines
    /\ pwr_state \in StateFiles
    /\ \E n \in {0, MaxCpus} : governor = [i \in 1..n |-> BootGovernor]
    /\ committed = IF pwr_state.exists THEN get_line(pwr_state.text) ELSE <<>>

InitSlots(active) ==
    /\ argv = [s \in Slots |-> <<>>]
    /\ flags = [s \in Slots |-> NoFlags]
    /\ ruid = [s \in Slots |-> 0]
    /\ mode = [s \in Slots |-> ""]
    /\ procs = [s \in Slots |-> <<>>]
    /\ status = [s \in Slots |-> IF s \in active THEN "ready" ELSE "off"]
    /\ exitcode = [s \in Slots |-> 0]
    /\ out = [s \in Slots |-> <<>>]
    /\ read_state = [s \in Slots |-> <<>>]
    /\ log = <<>>
    /\ prev = <<>>

Init == InitMachine(Machines) /\ InitSlots({"A"})

----------------------------------------------------------------------------
(* main *)

\* main(): ruid = geteuid(); parse_args(); a result other than E_OK is
\* returned at once, otherwise flags.action() is called.  Slot s starts an
\* invocation when it has none running; what the previous one left in the
\* process (flags, stdout, its part of the log) is gone.
main(s, args) ==
    /\ status[s] \in {"ready", "exited", "signaled"}
    /\ argv' = [argv EXCEPT ![s] = args]
    /\ ruid' = [ruid EXCEPT ![s] = env.cred.eff]
    /\ mode' = [mode EXCEPT ![s] = ""]
    /\ out' = [out EXCEPT ![s] = <<>>]
    /\ read_state' = [read_state EXCEPT ![s] = <<>>]
    /\ log' = SelectSeq(log, LAMBDA e : e.slot # s)
    /\ LET f == parse_args(args) IN
       /\ flags' = [flags EXCEPT ![s] = f]
       /\ IF f.result # E_OK
          THEN /\ status' = [status EXCEPT ![s] = "exited"]
               /\ exitcode' = [exitcode EXCEPT ![s] = f.result]
               /\ procs' = [procs EXCEPT ![s] = <<>>]
          ELSE /\ status' = [status EXCEPT ![s] = "running"]
               /\ exitcode' = [exitcode EXCEPT ![s] = 0]
               /\ procs' = [procs EXCEPT ![s] = <<Frame(f.action, env.cred.eff)>>]
    /\ UNCHANGED <<pwr_state, governor, env, committed>>

----------------------------------------------------------------------------
(* Actions without a transition *)

action_none(s) ==
    /\ At(s, "action_none")
    /\ Terminate(s, "exited", E_NO_ACTION, log)
    /\ UNCHANGED <<pwr_state, governor, env, prev, argv, flags, ruid, mode, out, committed, read_state>>

action_help(s) ==
    /\ At(s, "action_help")
    /\ Terminate(s, "exited", E_OK, log)
    /\ UNCHANGED <<pwr_state, governor, env, prev, argv, flags, ruid, mode, out, committed, read_state>>

action_version(s) ==
    /\ At(s, "action_version")
    /\ Terminate(s, "exited", E_OK, log)
    /\ UNCHANGED <<pwr_state, governor, env, prev, argv, flags, ruid, mode, out, committed, read_state>>

\* get_pwr_state(): fopen(.., "r") == NULL is handled by ehandle, which
\* exits; `if (pstate == NULL) return "perform";` after it is never reached.
get_pwr_state_fails == ~pwr_state.exists

\* action_query with a slip: a missing state file is created with the default.
action_query_CreatesDefault(s) ==
    /\ At(s, "action_query")
    /\ pwr_state' = IF get_pwr_state_fails
                    THEN [exists |-> TRUE, text |-> StateText("perform")] ELSE pwr_state
    /\ out' = [out EXCEPT ![s] = Append(@, get_line(pwr_state'.text))]
    /\ Terminate(s, "exited", E_OK, log)
    /\ UNCHANGED <<governor, env, prev, argv, flags, ruid, mode, committed, read_state>>

action_query(s) ==
    /\ At(s, "action_query")
    /\ IF get_pwr_state_fails
       THEN /\ ehandle(s, E_PWR_STATE_READ, log)
            /\ UNCHANGED out
       ELSE /\ out' = [out EXCEPT ![s] = Append(@, get_line(pwr_state.text))]
            /\ Terminate(s, "exited", E_OK, log)
    /\ UNCHANGED <<pwr_state, governor, env, prev, argv, flags, ruid, mode, committed, read_state>>

\* action_toggle: strcmp(state, "powersave") == 0 selects action_perform,
\* anything else action_powersave.
action_toggle(s) ==
    /\ At(s, "action_toggle")
    /\ IF get_pwr_state_fails
       THEN /\ ehandle(s, E_PWR_STATE_READ, log)
            /\ UNCHANGED read_state
       ELSE /\ read_state' = [read_state EXCEPT ![s] = get_line(pwr_state.text)]
            /\ Goto(s, IF read_state'[s] = <<"powersave">>
                       THEN "action_perform" ELSE "action_powersave", Top(s).euid)
            /\ UNCHANGED <<status, exitcode, log>>
    /\ UNCHANGED <<pwr_state, governor, env, prev, argv, flags, ruid, mode, out, committed>>

----------------------------------------------------------------------------
(* Transitions *)

\* The file behind the tool an actuator runs.
ToolFile(a) ==
    CASE a = "prime_select" -> env.prime_select
      [] a = "wifi_power" -> env.iwconfig
      [] a = "restart_display_manager" -> env.systemctl

\* fopen(path, "w") of a root-owned file below a root-owned directory needs
\* effective uid 0, and can fail for root as well (read-only file system,
\* a vanished sysfs node).
CanOpenForWrite(u, envok) == u = 0 /\ envok

\* action_perform / action_powersave begin with seteuid(0), result ignored.
EnterTransition(s, m) ==
    LET u == seteuid(env.cred, Top(s).euid, 0) IN
    /\ mode' = [mode EXCEPT ![s] = m]
    /\ log' = Append(log, [Event("seteuid", "root", <<>>, s, u = 0, 0) EXCEPT !.u = u])
    /\ Goto(s, After("seteuid"), u)
    /\ UNCHANGED <<pwr_state, governor, env, prev, argv, flags, ruid, status, exitcode,
                   out, committed, read_state>>

action_perform(s) == At(s, "action_perform") /\ EnterTransition(s, "perform")

action_powersave(s) == At(s, "action_powersave") /\ EnterTransition(s, "powersave")

\* cpu_governor(rule): every matched file is opened and written in turn; the
\* first fopen that fails ends the process.  k is the index of that file,
\* 0 when every fopen succeeds; the files before it were opened, which takes
\* the permission to.  The results of fprintf and fclose are not examined:
\* when the kernel refuses the governor name the write() behind fclose fails
\* (stored is FALSE), the files keep their contents and the loop goes on.
cpu_governor(s) ==
    /\ At(s, "cpu_governor")
    /\ LET rule == GovernorArg(mode[s])
           n == Len(governor)
           call == Event("call", "cpu_governor", <<<<rule>>>>, s, TRUE, 0)
           stored == rule \in env.accepts
       IN \E k \in 0..n :
            /\ \A i \in 1..n : (k = 0 \/ i < k) => CanOpenForWrite(Top(s).euid, TRUE)
            /\ governor' = [i \in 1..n |->
                              IF stored /\ (k = 0 \/ i < k) THEN rule ELSE governor[i]]
            /\ IF k # 0
               THEN ehandle(s, E_CPUFREQ_WRITE, Append(log, [call EXCEPT !.ok = FALSE, !.rc = k]))
               ELSE /\ log' = log \o <<[call EXCEPT !.ok = stored \/ n = 0],
                                       Event("ret", "cpu_governor", <<>>, s, TRUE, 0)>>
                    /\ Goto(s, After("cpu_governor"), Top(s).euid)
                    /\ UNCHANGED <<status, exitcode>>
    /\ UNCHANGED <<pwr_state, env, prev, argv, flags, ruid, mode, out, committed, read_state>>

\* The fexecl macro in actuator a: fork(); -1 is handled by ehandle; the
\* child calls execl(), the parent waitpid().
fexecl(s, a, arg, lg) ==
    \E forked \in BOOLEAN :
        IF ~forked
        THEN ehandle(s, E_FORK_FAILED, Append(lg, Event("fork", a, arg, s, FALSE, 0)))
        ELSE /\ procs' = [procs EXCEPT ![s] =
                    Append([@ EXCEPT ![Depth(s)].pc = After(a)],
                           [pc |-> "execl", euid |-> Top(s).euid, tool |-> a,
                            arg |-> arg, next |-> After(a)])]
             /\ log' = Append(lg, Event("fork", a, arg, s, TRUE, 0))
             /\ UNCHANGED <<status, exitcode>>

\* The actuator returns without running its tool.
Skip(s, a, lg) ==
    /\ log' = Append(lg, Event("ret", a, <<>>, s, TRUE, 0))
    /\ Goto(s, After(a), Top(s).euid)
    /\ UNCHANGED <<status, exitcode>>

\* prime_select with a slip: the tool is not run when the state file already
\* names the state the transition is going to.
prime_select_OnlyOnChange(s) ==
    /\ At(s, "prime_select")
    /\ LET arg == <<<<CardArg(mode[s])>>>>
           lg == Append(log, Event("call", "prime_select", arg, s, TRUE, 0))
       IN IF binary_exists(ToolFile("prime_select")) # 0
             /\ ~(pwr_state.exists /\ get_line(pwr_state.text) = <<StateArg(mode[s])>>)
          THEN fexecl(s, "prime_select", arg, lg)
          ELSE Skip(s, "prime_select", lg)
    /\ UNCHANGED <<pwr_state, governor, env, prev, argv, flags, ruid, mode, out, committed, read_state>>

prime_select(s) ==
    /\ At(s, "prime_select")
    /\ LET arg == <<<<CardArg(mode[s])>>>>
           lg == Append(log, Event("call", "prime_select", arg, s, TRUE, 0))
       IN IF binary_exists(ToolFile("prime_select")) # 0
          THEN fexecl(s, "prime_select", arg, lg)
          ELSE Skip(s, "prime_select", lg)
    /\ UNCHANGED <<pwr_state, governor, env, prev, argv, flags, ruid, mode, out, committed, read_state>>

\* wifi_power(state) calls wlan_name() before it looks for the tool.
wifi_power(s) ==
    /\ At(s, "wifi_power")
    /\ \E o \in WlanOutcomes(env.ifaces) :
         LET arg == <<o.name, <<"power">>, <<WifiArg(mode[s])>>>>
             lg == Append(log, Event("call", "wifi_power", <<<<WifiArg(mode[s])>>>>, s, TRUE, 0))
         IN IF o.crash
            THEN Terminate(s, "signaled", 11, lg)
            ELSE IF binary_exists(ToolFile("wifi_power")) # 0 /\ o.found
            THEN fexecl(s, "wifi_power", arg, lg)
            ELSE Skip(s, "wifi_power", lg)
    /\ UNCHANGED <<pwr_state, governor, env, prev, argv, flags, ruid, mode, out, committed, read_state>>

restart_display_manager(s) ==
    /\ At(s, "restart_display_manager")
    /\ LET arg == <<<<"restart">>, <<"display-manager">>>>
           lg == Append(log, Event("call", "restart_display_manager", <<>>, s, TRUE, 0))
       IN IF flags[s].no_restart = 0 /\ binary_exists(ToolFile("restart_display_manager")) # 0
          THEN fexecl(s, "restart_display_manager", arg, lg)
          ELSE Skip(s, "restart_display_manager", lg)
    /\ UNCHANGED <<pwr_state, governor, env, prev, argv, flags, ruid, mode, out, committed, read_state>>

\* The forked child: execl() replaces it by the tool, which runs and exits
\* with some status; if execl() fails the child leaves the macro and carries
\* on with the code that follows it.
execl(s) ==
    /\ At(s, "execl")
    /\ LET a == Top(s).tool IN
       IF CanExec(ToolFile(a), Top(s).euid)
       THEN \E rc \in {0, 1} :
              Terminate(s, "exited", rc, Append(log, Event("exec", a, Top(s).arg, s, TRUE, rc)))
       ELSE /\ log' = log \o <<Event("exec", a, Top(s).arg, s, FALSE, 0),
                               Event("ret", a, <<>>, s, TRUE, 0)>>
            /\ Goto(s, Top(s).next, Top(s).euid)
            /\ UNCHANGED <<status, exitcode>>
    /\ UNCHANGED <<pwr_state, governor, env, prev, argv, flags, ruid, mode, out, committed, read_state>>

\* set_pwr_state with a slip: a state file that is there is left alone, as if
\* it were a lock taken by whoever created it.
set_pwr_state_KeepsExisting(s) ==
    /\ At(s, "set_pwr_state")
    /\ LET state == StateArg(mode[s]) IN
       \E envok \in BOOLEAN :
          IF ~CanOpenForWrite(Top(s).euid, envok)
          THEN /\ ehandle(s, E_PWR_STATE_WRITE,
                          Append(log, Event("call", "set_pwr_state", <<<<state>>>>, s, FALSE, 0)))
               /\ UNCHANGED pwr_state
          ELSE /\ pwr_state' = IF pwr_state.exists THEN pwr_state
                               ELSE [exists |-> TRUE, text |-> StateText(state)]
               /\ log' = Append(log, Event("call", "set_pwr_state", <<<<state>>>>, s, TRUE, 0))
               /\ Goto(s, After("set_pwr_state"), Top(s).euid)
               /\ UNCHANGED <<status, exitcode>>
    /\ UNCHANGED <<governor, env, prev, argv, flags, ruid, mode, out, committed, read_state>>

\* set_pwr_state(state): fopen(.., "w") == NULL is handled by ehandle and
\* leaves the file as it was; otherwise the file holds state and a newline.
set_pwr_state(s) ==
    /\ At(s, "set_pwr_state")
    /\ LET state == StateArg(mode[s]) IN
       \E envok \in BOOLEAN :
          IF ~CanOpenForWrite(Top(s).euid, envok)
          THEN /\ ehandle(s, E_PWR_STATE_WRITE,
                          Append(log, Event("call", "set_pwr_state", <<<<state>>>>, s, FALSE, 0)))
               /\ UNCHANGED pwr_state
          ELSE /\ pwr_state' = [exists |-> TRUE, text |-> StateText(state)]
               /\ log' = Append(log, Event("call", "set_pwr_state", <<<<state>>>>, s, TRUE, 0))
               /\ Goto(s, After("set_pwr_state"), Top(s).euid)
               /\ UNCHANGED <<status, exitcode>>
    /\ UNCHANGED <<governor, env, prev, argv, flags, ruid, mode, out, committed, read_state>>

\* seteuid(ruid), result ignored
restore(s) ==
    /\ At(s, "restore")
    /\ LET u == seteuid(env.cred, Top(s).euid, ruid[s]) IN
       /\ log' = Append(log, [Event("seteuid", "ruid", <<>>, s, u = ruid[s], 0) EXCEPT !.u = u])
       /\ Goto(s, After("restore"), u)
    /\ UNCHANGED <<pwr_state, governor, env, prev, argv, flags, ruid, mode, status, exitcode,
                   out, committed, read_state>>

\* return E_OK from the action and from main: the process exits with 0.
action_return(s) ==
    /\ At(s, "return")
    /\ Terminate(s, "exited", E_OK, log)
    /\ committed' = IF Depth(s) = 1 THEN <<StateArg(mode[s])>> ELSE committed
    /\ UNCHANGED <<pwr_state, governor, env, prev, argv, flags, ruid, mode, out, read_state>>

----------------------------------------------------------------------------
(* Specification: invocations one after another in slot "A", on every
   machine, with the everyday command lines *)

Step(s) ==
        \/ action_none(s)
        \/ action_help(s)
        \/ action_version(s)
        \/ action_query(s)
        \/ action_toggle(s)
        \/ action_perform(s)
        \/ action_powersave(s)
        \/ cpu_governor(s)
        \/ prime_select(s)
        \/ wifi_power(s)
        \/ restart_display_manager(s)
        \/ execl(s)
        \/ set_pwr_state(s)
        \/ restore(s)
        \/ action_return(s)

Next ==
    \E s \in Slots :
        \/ \E args \in ShortLines : main(s, args) /\ UNCHANGED prev
        \/ Step(s)

Spec == Init /\ [][Next]_vars

----------------------------------------------------------------------------
(* Specification: one invocation, with every command line of at most MaxArgs
   tokens, run by root on machines that have the GPU and wireless tools and a
   wireless interface *)

ArgMachines ==
    {m \in Machines :
        /\ m.prime_select = Reg0755 /\ m.iwconfig = Reg0755
        /\ wlan_scan(m.ifaces, 1) # 0
        /\ m.cred.eff = 0
        /\ m.accepts = AllGovernors}

InitArgs == InitMachine(ArgMachines) /\ InitSlots({"A"})

NextArgs ==
    \E s \in Slots :
        \/ \E args \in CommandLines : status[s] = "ready" /\ main(s, args) /\ UNCHANGED prev
        \/ Step(s)

SpecArgs == InitArgs /\ [][NextArgs]_vars

----------------------------------------------------------------------------
(* Specification: two invocations in a row, run by root on machines with a
   wireless interface, the second one knowing what the first one did *)

TwiceMachines ==
    {m \in Machines :
        /\ m.iwconfig = Reg0755
        /\ wlan_scan(m.ifaces, 1) # 0
        /\ m.cred.eff = 0 /\ m.cred.real = 0
        /\ m.accepts = AllGovernors}

\* What the processes of the invocation in slot s did to the machine: the
\* governor written, and each tool that ran with its arguments.
Effects(s) ==
    {<<log[i].a, log[i].arg>> :
        i \in {j \in DOMAIN log :
                 /\ log[j].slot = s /\ log[j].ok
                 /\ \/ log[j].k = "exec"
                    \/ log[j].k = "call" /\ log[j].a = "cpu_governor" /\ governor # <<>>}}

\* The invocation that has ended in slot s, as the next one will remember it.
Remember(s) ==
    [argv |-> argv[s], status |-> status[s], exitcode |-> exitcode[s],
     pwr_state |-> pwr_state, governor |-> governor, effects |-> Effects(s)]

InitTwice == InitMachine(TwiceMachines) /\ InitSlots({"A"})

NextTwice ==
    \E s \in Slots :
        \/ \E args \in ShortLines :
              /\ prev = <<>>
              /\ main(s, args)
              /\ prev' = IF status[s] = "ready" THEN prev ELSE <<Remember(s)>>
        \/ Step(s)

SpecTwice == InitTwice /\ [][NextTwice]_vars

----------------------------------------------------------------------------
(* Specification: two invocations at the same time, one in each slot, each a
   perform or a powersave run by root on a machine without the three tools.
   Nothing orders the steps of the two processes: pwr takes no lock. *)

RaceMachines ==
    {m \in Machines :
        /\ m.prime_select = NoEnt /\ m.iwconfig = NoEnt /\ m.systemctl = NoEnt
        /\ wlan_scan(m.ifaces, 1) # 0
        /\ m.cred.eff = 0 /\ m.cred.real = 0
        /\ m.accepts = AllGovernors}

RaceLines == {<<"perform">>, <<"powersave">>}

InitRace == InitMachine(RaceMachines) /\ InitSlots(Slots)

\* The steps such invocations take.
NextRace ==
    \E s \in Slots :
        \/ \E args \in RaceLines : status[s] = "ready" /\ main(s, args) /\ UNCHANGED prev
        \/ action_perform(s)
        \/ action_powersave(s)
        \/ cpu_governor(s)
        \/ prime_select(s)
        \/ wifi_power(s)
        \/ restart_display_manager(s)
        \/ set_pwr_state(s)
        \/ restore(s)
        \/ action_return(s)

SpecRace == InitRace /\ [][NextRace]_vars

----------------------------------------------------------------------------
(* Vocabulary of the properties *)

Done(s) == status[s] \in {"exited", "signaled"}
Success(s) == status[s] = "exited" /\ exitcode[s] = E_OK
IsTransition(s) == flags[s].action \in {"action_perform", "action_powersave", "action_toggle"}

\* The name on the first line of a state file, <<>> when there is no file.
RecordName(file) == IF file.exists THEN get_line(file.text) ELSE <<>>

\* The profile a recorded name stands for ("prints 'perform' or 'powersave'").
Profile(name) ==
    IF name = <<"perform">> THEN "performance"
    ELSE IF name = <<"powersave">> THEN "powersave"
    ELSE "unknown"

\* The invocation ended in one of the failures of its environment that the
\* program reports: a governor file or the state file that cannot be opened,
\* or a fork that fails.
EnvFailure(s) ==
    status[s] = "exited"
    /\ exitcode[s] \in {E_CPUFREQ_WRITE, E_PWR_STATE_WRITE, E_FORK_FAILED}

Events(k, a) == {i \in DOMAIN log : log[i].k = k /\ log[i].a = a}

----------------------------------------------------------------------------
(* C1 *)

\* C1 (as claimed): when a toggle invocation has ended without a failure of
\* its environment, the state file names the performance profile if toggle
\* read powersave from it, and powersave otherwise, also when there was no
\* state file to read.
C1_ToggleFromEveryState ==
    \A s \in Slots :
        (Done(s) /\ flags[s].action = "action_toggle" /\ ~EnvFailure(s)
            /\ status[s] # "signaled")
        => Profile(RecordName(pwr_state)) =
              IF Profile(read_state[s]) = "powersave" THEN "performance" ELSE "powersave"

----------------------------------------------------------------------------
(* C2 *)

\* C2 (as claimed): a query on a machine with no state file ends with exit
\* code 0 after printing one line, the name of the performance profile.
C2_QueryDefaultsToPerformance ==
    \A s \in Slots :
        (Done(s) /\ flags[s].action = "action_query" /\ ~pwr_state.exists)
        => /\ Success(s)
           /\ Len(out[s]) = 1
           /\ Profile(out[s][1]) = "performance"

----------------------------------------------------------------------------
(* C3 *)

----------------------------------------------------------------------------
(* C4 *)

\* C4 (as claimed): once an invocation has ended, the state file names what
\* the most recent transition that ended with exit code 0 asked for (and is
\* absent if there was none): an invocation that ends otherwise has not
\* changed it.
C4_RecordFollowsLastSuccess ==
    \A s \in Slots : Done(s) => RecordName(pwr_state) = committed

----------------------------------------------------------------------------
(* C5 *)

\* The order the claim fixes.
ClaimedOrder ==
    <<"cpu_governor", "prime_select", "wifi_power", "restart_display_manager">>

\* C5: in the log of an invocation every call of an actuator other than the
\* first comes after a return from the actuator that precedes it in the
\* order CPU governor, GPU selection, wireless power, display-manager
\* restart, and every return after a call of the same actuator; in
\* particular restart_display_manager is never called before cpu_governor
\* has returned.
C5_ActuatorOrder ==
    \A i \in DOMAIN log :
        /\ \A n \in 2..Len(ClaimedOrder) :
              (log[i].k = "call" /\ log[i].a = ClaimedOrder[n])
              => \E j \in 1..(i - 1) :
                    log[j].k = "ret" /\ log[j].a = ClaimedOrder[n - 1]
        /\ \A n \in 1..Len(ClaimedOrder) :
              (log[i].k = "ret" /\ log[i].a = ClaimedOrder[n])
              => \E j \in 1..(i - 1) :
                    log[j].k = "call" /\ log[j].a = ClaimedOrder[n]
        /\ (log[i].k = "call" /\ log[i].a = "restart_display_manager")
              => \E j \in 1..(i - 1) :
                    log[j].k = "ret" /\ log[j].a = "cpu_governor"

\* All four actuators have been called and the display manager's restart
\* tool has run.
C5_Witness ==
    /\ \A n \in 1..Len(ClaimedOrder) : Events("call", ClaimedOrder[n]) # {}
    /\ \E i \in Events("exec", "restart_display_manager") : log[i].ok

----------------------------------------------------------------------------
(* C6 *)

\* C6 (as claimed): the CPU-governor, GPU-selection and wireless-power
\* actuators are only ever called by a process whose effective uid is 0.
C6_ActuatorsRunAsRoot ==
    \A i \in DOMAIN log :
        (log[i].k = "call" /\ log[i].a \in {"cpu_governor", "prime_select", "wifi_power"})
        => log[i].u = 0

----------------------------------------------------------------------------
(* C7 *)

\* C7 (as claimed): a pwr process that raised its effective uid has the uid
\* it started with (ruid) as its effective uid when it ends, however it ends.
C7_IdentityRestoredAtExit ==
    \A i \in DOMAIN log :
        (log[i].k = "exit"
            /\ \E j \in 1..(i - 1) : log[j].k = "seteuid" /\ log[j].a = "root" /\ log[j].ok)
        => log[i].u = ruid[log[i].slot]

----------------------------------------------------------------------------
(* C8 *)

\* C8 (as claimed): on a machine without an interface whose name starts with
\* "wl" no pwr process dies of a signal, and a transition that reached
\* wifi_power and met no failure of its environment ends with exit code 0.
C8_NoWirelessInterfaceIsSkipped ==
    wlan_scan(env.ifaces, 1) = 0
    => /\ \A i \in DOMAIN log : ~(log[i].k = "exit" /\ log[i].a = "signaled")
       /\ \A s \in Slots :
            (Done(s) /\ Events("call", "wifi_power") # {} /\ ~EnvFailure(s))
            => Success(s)

----------------------------------------------------------------------------
(* C9 *)

\* An actuator's capability is absent.
Absent(a) ==
    CASE a = "cpu_governor" -> governor = <<>>
      [] a = "wifi_power" -> ~env.iwconfig.exists
      [] OTHER -> ~ToolFile(a).exists

\* C9 (as claimed): an actuator whose capability is absent forks no child and
\* opens no governor file, and a transition on a machine with an absent
\* capability that met no failure of its environment ends with exit code 0
\* and the state record written.
C9_AbsentCapabilityIsSkipped ==
    /\ \A a \in Actuators :
         Absent(a) => Events("fork", a) = {} /\ Events("exec", a) = {}
    /\ \A s \in Slots :
         (Done(s) /\ IsTransition(s) /\ (\E a \in Actuators : Absent(a))
             /\ ~EnvFailure(s) /\ ~(status[s] = "exited" /\ exitcode[s] = E_PWR_STATE_READ))
         => /\ Success(s)
            /\ RecordName(pwr_state) = <<StateArg(mode[s])>>

----------------------------------------------------------------------------
(* C10 *)

NoRestartGiven(s) == \E i \in DOMAIN argv[s] : argv[s][i] \in {"--norestart", "-n"}

\* C10: in an invocation whose command line holds --norestart or -n, at any
\* position, no process forks for or runs the service manager's restart.
C10_NoRestartFlag ==
    \A s \in Slots :
        NoRestartGiven(s)
        => /\ Events("fork", "restart_display_manager") = {}
           /\ Events("exec", "restart_display_manager") = {}

\* A transition given the flag before its action token has ended with exit
\* code 0 on a machine whose systemctl is present and executable, after
\* restart_display_manager was called.
C10_Witness ==
    /\ Success("A") /\ Len(argv["A"]) = 2
    /\ argv["A"][1] \in {"--norestart", "-n"}
    /\ flags["A"].action \in {"action_perform", "action_powersave", "action_toggle"}
    /\ binary_exists(env.systemctl) # 0 /\ CanExec(env.systemctl, 0)
    /\ Events("call", "restart_display_manager") # {}

----------------------------------------------------------------------------
(* C11 *)

\* C11 (as claimed): E_CPUFREQ_WRITE differs from every other code of enum
\* errors, and when cpu_governor has failed to write a governor file it found
\* (a file could not be opened, or the write to an opened file was refused),
\* no actuator is called and the state file is not opened afterwards, and the
\* invocation, once it has ended, has exited with E_CPUFREQ_WRITE.
C11_GovernorWriteFailureIsFatal ==
    /\ E_CPUFREQ_WRITE \notin {E_OK, E_NO_ACTION, E_BAD_ARG, E_PWR_STATE_WRITE,
                               E_PWR_STATE_READ, E_FORK_FAILED}
    /\ \A i \in DOMAIN log :
         (log[i].k = "call" /\ log[i].a = "cpu_governor" /\ ~log[i].ok)
         => /\ \A j \in (i + 1)..Len(log) : log[j].k # "call"
            /\ Done(log[i].slot)
                 => status[log[i].slot] = "exited"
                    /\ exitcode[log[i].slot] = E_CPUFREQ_WRITE

----------------------------------------------------------------------------
(* C12 *)

\* The tool of actuator a, launched by the main process of an invocation, ran
\* and exited with a code other than 0: the index of its exec in the log.
FailedTool(a) ==
    {i \in Events("exec", a) : log[i].ok /\ log[i].rc # 0 /\ log[i].d = 2}

\* C12: when the tool of prime_select or wifi_power has run and exited with a
\* code other than 0, the process that launched it returns from the actuator
\* and goes on with the statement after it, and calls every later actuator;
\* once such an invocation has ended, without a failure of its environment
\* and without dying of a signal, it has exited with code 0 and the state
\* file holds the name the transition asked for.
C12_ToolFailureIsIgnored ==
    \A a \in {"prime_select", "wifi_power"} :
        \A i \in FailedTool(a) :
            LET s == log[i].slot IN
            /\ Len(log) >= i + 2
            /\ log[i + 2].k = "ret" /\ log[i + 2].a = a /\ log[i + 2].d = 1
            /\ Len(log) = i + 2 => At(s, After(a)) /\ Depth(s) = 1
            /\ (Done(s) /\ ~EnvFailure(s) /\ status[s] # "signaled")
                 => /\ Success(s)
                    /\ RecordName(pwr_state) = <<StateArg(mode[s])>>
                    /\ \A b \in Actuators :
                         (\E m, n \in 1..Len(ClaimedOrder) :
                             m < n /\ ClaimedOrder[m] = a /\ ClaimedOrder[n] = b)
                         => \E j \in Events("call", b) : j > i /\ log[j].d = 1

\* A transition has ended with exit code 0 and the record written although
\* both the GPU tool and the wireless tool exited with 1, and the display
\* manager was restarted after them.
C12_Witness ==
    /\ Success("A") /\ IsTransition("A")
    /\ FailedTool("prime_select") # {} /\ FailedTool("wifi_power") # {}
    /\ \E i \in Events("exec", "restart_display_manager") :
          log[i].ok /\ \A j \in FailedTool("wifi_power") : j < i
    /\ RecordName(pwr_state) = <<StateArg(mode["A"])>>

----------------------------------------------------------------------------
(* C13 *)

\* The tokens the help text documents: the actions and the flag.
ActionTokens == {"perform", "pe", "powersave", "ps", "query", "qu", "toggle", "to",
                 "--help", "--version"}
FlagTokens == {"--norestart", "-n"}

HasBadToken(s) == \E i \in DOMAIN argv[s] : argv[s][i] \notin ActionTokens \cup FlagTokens
HasActionToken(s) == \E i \in DOMAIN argv[s] : argv[s][i] \in ActionTokens

\* Nothing has been done to the machine since it was started: no process has
\* called seteuid or an actuator, forked or opened the state file for
\* writing, the governor files hold what they held and the state file names
\* what it named.
Untouched ==
    /\ \A i \in DOMAIN log : log[i].k \notin {"seteuid", "call", "fork", "exec"}
    /\ \A i \in DOMAIN governor : governor[i] = BootGovernor
    /\ RecordName(pwr_state) = committed

\* C13: an invocation whose command line holds a token that is neither an
\* action nor the flag ends with exit code 2 as soon as it has started, also
\* when an action token comes before that token; an invocation whose command
\* line holds no such token and no action token ends with exit code 1; in
\* both cases nothing is done to the machine.
C13_ParseErrorsAbortEarly ==
    \A s \in Slots :
        status[s] \in {"running", "exited", "signaled"}
        => /\ HasBadToken(s)
                => status[s] = "exited" /\ exitcode[s] = E_BAD_ARG /\ Untouched
           /\ (~HasBadToken(s) /\ ~HasActionToken(s))
                => /\ Untouched
                   /\ Done(s) => status[s] = "exited" /\ exitcode[s] = E_NO_ACTION

\* `pwr perform --bogus` has ended.
C13_Witness ==
    /\ argv["A"] = <<"perform", "--bogus">>
    /\ Done("A") /\ exitcode["A"] = E_BAD_ARG

----------------------------------------------------------------------------
(* C14 *)

\* C14: an invocation whose action is query never calls seteuid, an actuator
\* or set_pwr_state and never forks, its process keeps the effective uid it
\* was started with, and no step taken while it runs changes the state file
\* or a governor file.
C14_QueryHasNoSideEffects ==
    /\ [](\A s \in Slots :
            (flags[s].action = "action_query" /\ status[s] \in {"running", "exited", "signaled"})
            => /\ \A i \in DOMAIN log :
                    log[i].slot = s => log[i].k \notin {"seteuid", "call", "fork", "exec"}
               /\ Running(s) => Depth(s) = 1 /\ Top(s).euid = env.cred.eff)
    /\ [][\A s \in Slots :
            (flags[s].action = "action_query" /\ Running(s))
            => pwr_state' = pwr_state /\ governor' = governor]_vars

\* A query has read a record that names powersave, printed it and ended.
C14_Witness ==
    /\ flags["A"].action = "action_query" /\ Success("A")
    /\ out["A"] = <<<<"powersave">>>>
    /\ pwr_state.text = <<"powersave", "\n">>

----------------------------------------------------------------------------
(* C15 *)

\* set_pwr_state could not open the state file in the main process of an
\* invocation: the index of the call in the log.
StateWriteFailed(s) ==
    {i \in Events("call", "set_pwr_state") : ~log[i].ok /\ log[i].d = 1 /\ log[i].slot = s}

\* C15 (as claimed): E_PWR_STATE_WRITE differs from every other code of enum
\* errors, and an invocation whose set_pwr_state could not open the state
\* file has exited with E_PWR_STATE_WRITE, the governor files it wrote hold
\* the governor it wrote, and the state file names what it named before the
\* invocation.
C15_StateWriteFailureIsFatal ==
    /\ E_PWR_STATE_WRITE \notin {E_OK, E_NO_ACTION, E_BAD_ARG, E_CPUFREQ_WRITE,
                                 E_PWR_STATE_READ, E_FORK_FAILED}
    /\ \A s \in Slots :
         StateWriteFailed(s) # {}
         => /\ status[s] = "exited" /\ exitcode[s] = E_PWR_STATE_WRITE
            /\ \A i \in Events("call", "cpu_governor") :
                 log[i].ok => \A c \in DOMAIN governor : governor[c] = log[i].arg[1][1]
            /\ RecordName(pwr_state) = committed

----------------------------------------------------------------------------
(* C16 *)

\* The invocation in slot s and the one before it were both given the command
\* line `perform`, or both `perform --norestart`, and both ended with exit
\* code 0.
PerformTwice(s) ==
    /\ prev # <<>> /\ Success(s)
    /\ flags[s].action = "action_perform" /\ argv[s] = prev[1].argv
    /\ prev[1].status = "exited" /\ prev[1].exitcode = E_OK

----------------------------------------------------------------------------
(* C17 *)

\* Events j and i, j before i, are steps of one process: they have the slot
\* and the depth in common and no process of that depth ended in between.
SameProcess(j, i) ==
    /\ j < i /\ log[j].slot = log[i].slot /\ log[j].d = log[i].d
    /\ \A m \in (j + 1)..(i - 1) :
         ~(log[m].k \in {"exit", "tool_exit"} /\ log[m].slot = log[i].slot
           /\ log[m].d = log[i].d)

IsStateWrite(i) == log[i].k = "call" /\ log[i].a = "set_pwr_state"
IsRestore(i) == log[i].k = "seteuid" /\ log[i].a = "ruid"

----------------------------------------------------------------------------
(* C18 *)

\* C18 (as claimed): in the log of an invocation each tool has run at most
\* once and the state file has been written at most once, and only the main
\* process calls actuators and set_pwr_state: a forked child does nothing
\* but execl.
C18_ChildOnlyExecs ==
    /\ \A a \in Actuators : Cardinality({i \in Events("exec", a) : log[i].ok}) <= 1
    /\ Cardinality({i \in DOMAIN log : IsStateWrite(i) /\ log[i].ok}) <= 1
    /\ \A i \in DOMAIN log : log[i].k \in {"call", "fork", "seteuid"} => log[i].d = 1

----------------------------------------------------------------------------
(* C19 *)

\* A regular file exists at the path of f and the user with effective uid u
\* may execute it (the files are owned by root: any execute bit serves root,
\* the bit for others serves everybody else).
ExecutableBy(f, u) ==
    /\ f.exists
    /\ BitAnd(f.mode, 61440) = 32768
    /\ BitAnd(f.mode, IF u = 0 THEN 73 ELSE 1) # 0

\* C19 (as claimed): binary_exists answers true for the file of a tool
\* exactly when it is a regular file that the calling process may execute:
\* whenever prime_select, which runs its tool if and only if binary_exists
\* says so, has been called, it has forked if such a file is there and has
\* not forked otherwise.
C19_ProbeMeansRegularExecutable ==
    \A i \in Events("call", "prime_select") :
        i < Len(log)
        => (log[i + 1].k = "fork" <=> ExecutableBy(env.prime_select, log[i].u))

----------------------------------------------------------------------------
(* C20 *)

\* The calls that wrote the state file, and the calls of cpu_governor that
\* wrote the first governor file.
StateWrites == {i \in DOMAIN log : IsStateWrite(i) /\ log[i].ok}
GovernorWrites ==
    {i \in Events("call", "cpu_governor") : governor # <<>> /\ (log[i].ok \/ log[i].rc > 1)}

Last(S) == CHOOSE i \in S : \A j \in S : j <= i

\* C20: with two invocations running at the same time the last writer wins,
\* for the state file and for the governor files independently: the state
\* file holds what the latest set_pwr_state wrote, and the first governor
\* file what the latest cpu_governor wrote, whichever process it was.
C20_LastWriterWins ==
    /\ StateWrites # {}
         => pwr_state = [exists |-> TRUE, text |-> <<log[Last(StateWrites)].arg[1][1], "\n">>]
    /\ GovernorWrites # {}
         => governor[1] = log[Last(GovernorWrites)].arg[1][1]

\* Two invocations with different profiles have both ended with exit code 0,
\* their steps interleaved so that the one whose governor was written last
\* wrote the state file first: the state file names one profile and the
\* governor files hold the governor of the other.
C20_Witness ==
    /\ \A s \in Slots : Success(s)
    /\ mode["A"] # mode["B"]
    /\ GovernorWrites # {} /\ StateWrites # {}
    /\ log[Last(GovernorWrites)].slot # log[Last(StateWrites)].slot
    /\ \A c \in DOMAIN governor : governor[c] # Profile(RecordName(pwr_state))
    /\ \A c \in DOMAIN governor : governor[c] \in {"performance", "powersave"}

====
